---- MODULE Spec2Model ----
(***************************************************************************)
(* AVLTree<int> of AVLtree.cpp as a state machine over an explicit heap.   *)
(*                                                                         *)
(* heap maps every allocated (new'ed, not yet deleted) address to its Node *)
(* record; an address outside DOMAIN heap is not a live object.  root is   *)
(* the tree's root pointer, NULL (0) when the tree is empty.               *)
(* The private member functions are operators that take a heap and return  *)
(* the heap after the call together with the returned pointer.             *)
(***************************************************************************)
EXTENDS Integers, Sequences, FiniteSets

VARIABLES heap,   \* allocated nodes: address -> [value, left, right, height]
          root,   \* AVLTree::root
          op,     \* the last public call: [kind, v]
          pre,    \* heap and root as they were when the last public call began
          S,      \* the mathematical set the calls so far describe
          calls,  \* the private calls the last public call made, in order
          pc      \* position of main() in its script (SpecDemo only)

vars == <<heap, root, op, pre, S, calls, pc>>

(***************************************************************************)
(* Bounds                                                                  *)
(***************************************************************************)
MaxVal == 7        \* Spec, SpecIns: values are 1..MaxVal
DemoWindow == 2    \* SpecDemo: new returns one of the DemoWindow lowest free addresses
AscLen == 7        \* SpecAsc: 1..AscLen are inserted in ascending order
FnNodes == 6       \* SpecFn: the subtree has 1..FnNodes nodes
FnSkew == 2        \* SpecFn: subtree heights differ by at most FnSkew at every node
LogScale == 4      \* HeightBound: log2(n+2) is taken in steps of 1/LogScale

Values == 1..MaxVal

NULL == 0

Max(a, b) == IF a > b THEN a ELSE b

(***************************************************************************)
(* struct Node and the allocator                                           *)
(***************************************************************************)
Node(val) == [value |-> val, left |-> NULL, right |-> NULL, height |-> 1]

EmptyHeap == [a \in {} |-> Node(0)]

\* new Node(val) returning address a
New(h, a, val) == [x \in (DOMAIN h) \cup {a} |-> IF x = a THEN Node(val) ELSE h[x]]

\* delete node
Delete(h, node) == [x \in (DOMAIN h) \ {node} |-> h[x]]

(***************************************************************************)
(* Height / balance accessors                                              *)
(***************************************************************************)
getHeight(h, node) == IF node # NULL THEN h[node].height ELSE 0

updateHeight(h, node) ==
    [h EXCEPT ![node].height =
        1 + Max(getHeight(h, h[node].left), getHeight(h, h[node].right))]

getBalance(h, node) ==
    IF node # NULL
    THEN getHeight(h, h[node].left) - getHeight(h, h[node].right)
    ELSE 0

(***************************************************************************)
(* Record of the private calls made while a public call runs.  Every       *)
(* result carries, next to the heap and the returned pointer, the calls of *)
(* balance, rotateRight, rotateLeft and removeMin made to produce it, in   *)
(* the order they were entered, each with the heap as it was on entry.     *)
(***************************************************************************)
\* the call name(arg), entered with the heap being at (kept as a copy)
Call(name, at, arg) == [ev |-> name, h |-> [n \in DOMAIN at |-> at[n]], node |-> arg]

Ret(at, ptr) == [h |-> at, r |-> ptr, log |-> <<>>]

\* res, reached after the calls of before
After(before, res) == [h |-> res.h, r |-> res.r, log |-> before \o res.log]

(***************************************************************************)
(* Rotations.  With the required child absent the first statement reads    *)
(* through a null pointer and the program's behaviour is no longer         *)
(* defined; the call is recorded and nothing is changed.                   *)
(***************************************************************************)
\* faulty variant: y takes over x's left child instead of x's right child
rotateRight_wrongChild(h, y) ==
    LET x  == h[y].left
        h1 == [h EXCEPT ![y].left = h[x].left]
        h2 == [h1 EXCEPT ![x].right = y]
        h3 == updateHeight(h2, y)
        h4 == updateHeight(h3, x)
    IN  IF x = NULL THEN [h |-> h, r |-> y, log |-> <<Call("rotateRight", h, y)>>]
        ELSE [h |-> h4, r |-> x, log |-> <<Call("rotateRight", h, y)>>]

\* faulty variant: a copy of x is made the new root, x itself stays allocated
rotateRight_copiesNode(h, y) ==
    LET x  == h[y].left
        c  == 1 + 2 * MaxVal + x
        h0 == [n \in (DOMAIN h) \cup {c} |-> IF n = c THEN h[x] ELSE h[n]]
        h1 == [h0 EXCEPT ![y].left = h0[c].right]
        h2 == [h1 EXCEPT ![c].right = y]
        h3 == updateHeight(h2, y)
        h4 == updateHeight(h3, c)
    IN  IF x = NULL THEN [h |-> h, r |-> y, log |-> <<Call("rotateRight", h, y)>>]
        ELSE [h |-> h4, r |-> c, log |-> <<Call("rotateRight", h, y)>>]

rotateRight(h, y) ==
    LET x  == h[y].left
        h1 == [h EXCEPT ![y].left = h[x].right]
        h2 == [h1 EXCEPT ![x].right = y]
        h3 == updateHeight(h2, y)
        h4 == updateHeight(h3, x)
    IN  IF x = NULL THEN [h |-> h, r |-> y, log |-> <<Call("rotateRight", h, y)>>]
        ELSE [h |-> h4, r |-> x, log |-> <<Call("rotateRight", h, y)>>]

\* faulty variant: heights refreshed in the wrong order (new root before demoted node)
rotateLeft_rootFirst(h, x) ==
    LET y  == h[x].right
        h1 == [h EXCEPT ![x].right = h[y].left]
        h2 == [h1 EXCEPT ![y].left = x]
        h3 == updateHeight(h2, y)
        h4 == updateHeight(h3, x)
    IN  IF y = NULL THEN [h |-> h, r |-> x, log |-> <<Call("rotateLeft", h, x)>>]
        ELSE [h |-> h4, r |-> y, log |-> <<Call("rotateLeft", h, x)>>]

rotateLeft(h, x) ==
    LET y  == h[x].right
        h1 == [h EXCEPT ![x].right = h[y].left]
        h2 == [h1 EXCEPT ![y].left = x]
        h3 == updateHeight(h2, x)
        h4 == updateHeight(h3, y)
    IN  IF y = NULL THEN [h |-> h, r |-> x, log |-> <<Call("rotateLeft", h, x)>>]
        ELSE [h |-> h4, r |-> y, log |-> <<Call("rotateLeft", h, x)>>]

(***************************************************************************)
(* balance                                                                 *)
(***************************************************************************)
\* faulty variant: the height is refreshed but no rotation is ever made
balance_noRotation(h, node) ==
    [h |-> updateHeight(h, node), r |-> node, log |-> <<Call("balance", h, node)>>]

\* faulty variant: the left-right / right-left inner rotation is forgotten
balance_singleOnly(h, node) ==
    LET h1 == updateHeight(h, node)
        balanceFactor == getBalance(h1, node)
        entered == <<Call("balance", h, node)>>
    IN  IF balanceFactor > 1 THEN After(entered, rotateRight(h1, node))
        ELSE IF balanceFactor < -1 THEN After(entered, rotateLeft(h1, node))
        ELSE [h |-> h1, r |-> node, log |-> entered]

\* faulty variant: the tests on the heavy child's balance factor are reversed
balance_innerTestReversed(h, node) ==
    LET h1 == updateHeight(h, node)
        balanceFactor == getBalance(h1, node)
        entered == <<Call("balance", h, node)>>
    IN  IF balanceFactor > 1
        THEN LET inner == IF getBalance(h1, h1[node].left) > 0
                          THEN LET rl == rotateLeft(h1, h1[node].left)
                               IN  [h |-> [rl.h EXCEPT ![node].left = rl.r], log |-> rl.log]
                          ELSE [h |-> h1, log |-> <<>>]
             IN  After(entered \o inner.log, rotateRight(inner.h, node))
        ELSE IF balanceFactor < -1
        THEN LET inner == IF getBalance(h1, h1[node].right) < 0
                          THEN LET rr == rotateRight(h1, h1[node].right)
                               IN  [h |-> [rr.h EXCEPT ![node].right = rr.r], log |-> rr.log]
                          ELSE [h |-> h1, log |-> <<>>]
             IN  After(entered \o inner.log, rotateLeft(inner.h, node))
        ELSE [h |-> h1, r |-> node, log |-> entered]

\* faulty variant: the heavy child is rotated first also when its balance factor is 0
balance_innerOnZero(h, node) ==
    LET h1 == updateHeight(h, node)
        balanceFactor == getBalance(h1, node)
        entered == <<Call("balance", h, node)>>
    IN  IF balanceFactor > 1
        THEN LET inner == IF getBalance(h1, h1[node].left) <= 0
                          THEN LET rl == rotateLeft(h1, h1[node].left)
                               IN  [h |-> [rl.h EXCEPT ![node].left = rl.r], log |-> rl.log]
                          ELSE [h |-> h1, log |-> <<>>]
             IN  After(entered \o inner.log, rotateRight(inner.h, node))
        ELSE IF balanceFactor < -1
        THEN LET inner == IF getBalance(h1, h1[node].right) >= 0
                          THEN LET rr == rotateRight(h1, h1[node].right)
                               IN  [h |-> [rr.h EXCEPT ![node].right = rr.r], log |-> rr.log]
                          ELSE [h |-> h1, log |-> <<>>]
             IN  After(entered \o inner.log, rotateLeft(inner.h, node))
        ELSE [h |-> h1, r |-> node, log |-> entered]

balance(h, node) ==
    LET h1 == updateHeight(h, node)
        balanceFactor == getBalance(h1, node)
        entered == <<Call("balance", h, node)>>
    IN  IF balanceFactor > 1
        THEN LET inner == IF getBalance(h1, h1[node].left) < 0
                          THEN LET rl == rotateLeft(h1, h1[node].left)
                               IN  [h |-> [rl.h EXCEPT ![node].left = rl.r], log |-> rl.log]
                          ELSE [h |-> h1, log |-> <<>>]
             IN  After(entered \o inner.log, rotateRight(inner.h, node))
        ELSE IF balanceFactor < -1
        THEN LET inner == IF getBalance(h1, h1[node].right) > 0
                          THEN LET rr == rotateRight(h1, h1[node].right)
                               IN  [h |-> [rr.h EXCEPT ![node].right = rr.r], log |-> rr.log]
                          ELSE [h |-> h1, log |-> <<>>]
             IN  After(entered \o inner.log, rotateLeft(inner.h, node))
        ELSE [h |-> h1, r |-> node, log |-> entered]

(***************************************************************************)
(* insert(Node*, value); a is the address new returns if it is called      *)
(***************************************************************************)
RECURSIVE insert(_, _, _, _)

\* faulty variant: the two comparisons send the value to the wrong side
insert_wrongSide(h, node, value, a) ==
    IF node = NULL THEN Ret(New(h, a, value), a)
    ELSE IF value < h[node].value
    THEN LET res == insert(h, h[node].right, value, a)
         IN  After(res.log, balance([res.h EXCEPT ![node].right = res.r], node))
    ELSE IF h[node].value < value
    THEN LET res == insert(h, h[node].left, value, a)
         IN  After(res.log, balance([res.h EXCEPT ![node].left = res.r], node))
    ELSE Ret(h, node)

\* faulty variant: no equality case, a value that is not less goes right
insert_noDuplicateCheck(h, node, value, a) ==
    IF node = NULL THEN Ret(New(h, a, value), a)
    ELSE IF value < h[node].value
    THEN LET res == insert(h, h[node].left, value, a)
         IN  After(res.log, balance([res.h EXCEPT ![node].left = res.r], node))
    ELSE LET res == insert(h, h[node].right, value, a)
         IN  After(res.log, balance([res.h EXCEPT ![node].right = res.r], node))

insert(h, node, value, a) ==
    IF node = NULL THEN Ret(New(h, a, value), a)
    ELSE IF value < h[node].value
    THEN LET res == insert(h, h[node].left, value, a)
         IN  After(res.log, balance([res.h EXCEPT ![node].left = res.r], node))
    ELSE IF h[node].value < value
    THEN LET res == insert(h, h[node].right, value, a)
         IN  After(res.log, balance([res.h EXCEPT ![node].right = res.r], node))
    ELSE Ret(h, node)

(***************************************************************************)
(* findMin, removeMin, remove(Node*, value).  removeMin on a null pointer  *)
(* reads through it: recorded, nothing changed, as for the rotations.      *)
(***************************************************************************)
RECURSIVE findMin(_, _)
findMin(h, node) ==
    IF node # NULL /\ h[node].left # NULL THEN findMin(h, h[node].left) ELSE node

RECURSIVE removeMin(_, _)

\* faulty variant: the nodes on the way back up are not rebalanced
removeMin_noBalance(h, node) ==
    LET entered == <<Call("removeMin", h, node)>>
    IN  IF node = NULL THEN [h |-> h, r |-> NULL, log |-> entered]
        ELSE IF h[node].left = NULL THEN [h |-> h, r |-> h[node].right, log |-> entered]
        ELSE LET res == removeMin(h, h[node].left)
             IN  [h |-> [res.h EXCEPT ![node].left = res.r], r |-> node,
                  log |-> entered \o res.log]

removeMin(h, node) ==
    LET entered == <<Call("removeMin", h, node)>>
    IN  IF node = NULL THEN [h |-> h, r |-> NULL, log |-> entered]
        ELSE IF h[node].left = NULL THEN [h |-> h, r |-> h[node].right, log |-> entered]
        ELSE LET res == removeMin(h, h[node].left)
             IN  After(entered \o res.log,
                       balance([res.h EXCEPT ![node].left = res.r], node))

RECURSIVE remove(_, _, _)

\* faulty variant: the old left subtree is not re-attached to the successor
remove_dropsLeft(h, node, value) ==
    IF node = NULL THEN Ret(h, NULL)
    ELSE IF value < h[node].value
    THEN LET res == remove(h, h[node].left, value)
         IN  After(res.log, balance([res.h EXCEPT ![node].left = res.r], node))
    ELSE IF h[node].value < value
    THEN LET res == remove(h, h[node].right, value)
         IN  After(res.log, balance([res.h EXCEPT ![node].right = res.r], node))
    ELSE LET left  == h[node].left
             right == h[node].right
             h1    == Delete(h, node)
         IN  IF right = NULL THEN Ret(h1, left)
             ELSE LET min == findMin(h1, right)
                      rm  == removeMin(h1, right)
                      h2  == [rm.h EXCEPT ![min].right = rm.r]
                  IN  After(rm.log, balance(h2, min))

\* faulty variant: no equality case, a value that is not less is taken as found
remove_noSecondCompare(h, node, value) ==
    IF node = NULL THEN Ret(h, NULL)
    ELSE IF value < h[node].value
    THEN LET res == remove(h, h[node].left, value)
         IN  After(res.log, balance([res.h EXCEPT ![node].left = res.r], node))
    ELSE LET left  == h[node].left
             right == h[node].right
             h1    == Delete(h, node)
         IN  IF right = NULL THEN Ret(h1, left)
             ELSE LET min == findMin(h1, right)
                      rm  == removeMin(h1, right)
                      h2  == [rm.h EXCEPT ![min].right = rm.r]
                      h3  == [h2 EXCEPT ![min].left = left]
                  IN  After(rm.log, balance(h3, min))

\* faulty variant: the matched node is unlinked but never deleted
remove_noDelete(h, node, value) ==
    IF node = NULL THEN Ret(h, NULL)
    ELSE IF value < h[node].value
    THEN LET res == remove(h, h[node].left, value)
         IN  After(res.log, balance([res.h EXCEPT ![node].left = res.r], node))
    ELSE IF h[node].value < value
    THEN LET res == remove(h, h[node].right, value)
         IN  After(res.log, balance([res.h EXCEPT ![node].right = res.r], node))
    ELSE LET left  == h[node].left
             right == h[node].right
         IN  IF right = NULL THEN Ret(h, left)
             ELSE LET min == findMin(h, right)
                      rm  == removeMin(h, right)
                      h2  == [rm.h EXCEPT ![min].right = rm.r]
                      h3  == [h2 EXCEPT ![min].left = left]
                  IN  After(rm.log, balance(h3, min))

\* faulty variant: the successor is not rebalanced once it is in place
remove_noFinalBalance(h, node, value) ==
    IF node = NULL THEN Ret(h, NULL)
    ELSE IF value < h[node].value
    THEN LET res == remove(h, h[node].left, value)
         IN  After(res.log, balance([res.h EXCEPT ![node].left = res.r], node))
    ELSE IF h[node].value < value
    THEN LET res == remove(h, h[node].right, value)
         IN  After(res.log, balance([res.h EXCEPT ![node].right = res.r], node))
    ELSE LET left  == h[node].left
             right == h[node].right
             h1    == Delete(h, node)
         IN  IF right = NULL THEN Ret(h1, left)
             ELSE LET min == findMin(h1, right)
                      rm  == removeMin(h1, right)
                      h2  == [rm.h EXCEPT ![min].right = rm.r]
                      h3  == [h2 EXCEPT ![min].left = left]
                  IN  After(rm.log, Ret(h3, min))

remove(h, node, value) ==
    IF node = NULL THEN Ret(h, NULL)
    ELSE IF value < h[node].value
    THEN LET res == remove(h, h[node].left, value)
         IN  After(res.log, balance([res.h EXCEPT ![node].left = res.r], node))
    ELSE IF h[node].value < value
    THEN LET res == remove(h, h[node].right, value)
         IN  After(res.log, balance([res.h EXCEPT ![node].right = res.r], node))
    ELSE LET left  == h[node].left
             right == h[node].right
             h1    == Delete(h, node)
         IN  IF right = NULL THEN Ret(h1, left)
             ELSE LET min == findMin(h1, right)
                      rm  == removeMin(h1, right)
                      h2  == [rm.h EXCEPT ![min].right = rm.r]
                      h3  == [h2 EXCEPT ![min].left = left]
                  IN  After(rm.log, balance(h3, min))

(***************************************************************************)
(* Queries and traversals                                                  *)
(***************************************************************************)
RECURSIVE containsFrom(_, _, _)
\* the while loop of contains, current being the loop variable
containsFrom(h, current, value) ==
    IF current = NULL THEN FALSE
    ELSE IF value < h[current].value THEN containsFrom(h, h[current].left, value)
    ELSE IF h[current].value < value THEN containsFrom(h, h[current].right, value)
    ELSE TRUE

contains(h, r, value) == containsFrom(h, r, value)

empty(r) == r = NULL

RECURSIVE inOrder(_, _)

\* faulty variant: the node's value is pushed before its left subtree
inOrder_valueFirst(h, node) ==
    IF node # NULL
    THEN <<h[node].value>> \o inOrder(h, h[node].left) \o inOrder(h, h[node].right)
    ELSE <<>>

inOrder(h, node) ==
    IF node # NULL
    THEN inOrder(h, h[node].left) \o <<h[node].value>> \o inOrder(h, h[node].right)
    ELSE <<>>

inOrderTraversal(h, r) == inOrder(h, r)

RECURSIVE preOrder(_, _)
preOrder(h, node) ==
    IF node # NULL
    THEN <<h[node].value>> \o preOrder(h, h[node].left) \o preOrder(h, h[node].right)
    ELSE <<>>

preOrderTraversal(h, r) == preOrder(h, r)

RECURSIVE postOrder(_, _)

\* faulty variant: the right subtree is not visited
postOrder_skipsRight(h, node) ==
    IF node # NULL
    THEN postOrder(h, h[node].left) \o <<h[node].value>>
    ELSE <<>>

postOrder(h, node) ==
    IF node # NULL
    THEN postOrder(h, h[node].left) \o postOrder(h, h[node].right) \o <<h[node].value>>
    ELSE <<>>

postOrderTraversal(h, r) == postOrder(h, r)

(***************************************************************************)
(* The public calls as actions                                             *)
(***************************************************************************)
Init ==
    /\ heap = EmptyHeap
    /\ root = NULL
    /\ op = [kind |-> "none", v |-> 0]
    /\ pre = [heap |-> EmptyHeap, root |-> NULL]
    /\ S = {}
    /\ calls = <<>>
    /\ pc = 0

\* void insert(const T& value), new returning a when it is reached
Insert(v, a) ==
    LET res == insert(heap, root, v, a)
    IN  /\ heap' = res.h
        /\ root' = res.r
        /\ op' = [kind |-> "insert", v |-> v]
        /\ pre' = [heap |-> heap, root |-> root]
        /\ S' = S \cup {v}
        /\ calls' = res.log

\* void remove(const T& value)
Remove(v) ==
    LET res == remove(heap, root, v)
    IN  /\ heap' = res.h
        /\ root' = res.r
        /\ op' = [kind |-> "remove", v |-> v]
        /\ pre' = [heap |-> heap, root |-> root]
        /\ S' = S \ {v}
        /\ calls' = res.log

(***************************************************************************)
(* Spec: any sequence of insert / remove calls over Values.  The program   *)
(* never compares or computes with addresses, so here the allocator is     *)
(* fixed to one of its possible behaviours: the node for v is placed at    *)
(* address v, or at v + MaxVal while v is still occupied.  A call for      *)
(* which neither is free (new would throw) is not taken.                   *)
(***************************************************************************)
SlotFor(h, v) == IF v \notin DOMAIN h THEN v ELSE v + MaxVal

InsertCall(v) ==
    /\ SlotFor(heap, v) \notin DOMAIN heap
    /\ Insert(v, SlotFor(heap, v))
    /\ UNCHANGED pc

RemoveCall(v) == Remove(v) /\ UNCHANGED pc

Next == \E v \in Values : InsertCall(v) \/ RemoveCall(v)

Spec == Init /\ [][Next]_vars

(***************************************************************************)
(* SpecIns: distinct values of Values inserted into an empty tree, in any  *)
(* order, and nothing else.                                                *)
(***************************************************************************)
InsertNew(v) == v \notin S /\ InsertCall(v)

NextIns == \E v \in Values : InsertNew(v)

SpecIns == Init /\ [][NextIns]_vars

(***************************************************************************)
(* SpecDemo: the calls main() makes on its tree, in order.                 *)
(***************************************************************************)
Ins(v) == [kind |-> "insert", v |-> v]
Rem(v) == [kind |-> "remove", v |-> v]

DemoScript ==
    << Ins(10), Ins(20), Ins(30), Ins(40), Ins(50), Ins(25),
       Rem(30),
       Ins(15), Ins(5), Ins(35) >>

\* the DemoWindow lowest addresses that are not allocated
DemoAddrs(h) ==
    {a \in 1..(Cardinality(DOMAIN h) + DemoWindow) :
        /\ a \notin DOMAIN h
        /\ Cardinality({b \in 1..a : b \notin DOMAIN h}) <= DemoWindow}

DemoInsert ==
    /\ pc < Len(DemoScript)
    /\ DemoScript[pc + 1].kind = "insert"
    /\ \E a \in DemoAddrs(heap) : Insert(DemoScript[pc + 1].v, a)
    /\ pc' = pc + 1

DemoRemove ==
    /\ pc < Len(DemoScript)
    /\ DemoScript[pc + 1].kind = "remove"
    /\ Remove(DemoScript[pc + 1].v)
    /\ pc' = pc + 1

NextDemo == DemoInsert \/ DemoRemove

SpecDemo == Init /\ [][NextDemo]_vars

(***************************************************************************)
(* SpecAsc: 1, 2, ..., AscLen inserted in that order into an empty tree;   *)
(* pc is the number of values inserted so far.                             *)
(***************************************************************************)
AscInsert ==
    /\ pc < AscLen
    /\ \E a \in DemoAddrs(heap) : Insert(pc + 1, a)
    /\ pc' = pc + 1

NextAsc == AscInsert

SpecAsc == Init /\ [][NextAsc]_vars

(***************************************************************************)
(* SpecFn: one private call on one subtree.  The subtree is any search     *)
(* tree of 1..FnNodes nodes in which the heights of the two subtrees of    *)
(* every node differ by at most FnSkew (what balance and the rotations are *)
(* handed is among them), holding the values 1..n, the node for v at       *)
(* address v, with every cached height correct except that the root's own, *)
(* which balance recomputes, may be off by one.                            *)
(***************************************************************************)
\* the tree with a new root k over the trees L and R
Join(k, L, R) ==
    [h |-> [n \in (DOMAIN L.h) \cup (DOMAIN R.h) \cup {k} |->
               IF n = k
               THEN [value |-> k, left |-> L.r, right |-> R.r,
                     height |-> 1 + Max(getHeight(L.h, L.r), getHeight(R.h, R.r))]
               ELSE IF n \in DOMAIN L.h THEN L.h[n] ELSE R.h[n]],
     r |-> k]

RECURSIVE TreesOn(_, _)
\* the trees holding exactly the values lo..hi
TreesOn(lo, hi) ==
    IF lo > hi THEN {[h |-> EmptyHeap, r |-> NULL]}
    ELSE UNION {
           {Join(k, q[1], q[2]) :
              q \in {p \in TreesOn(lo, k - 1) \X TreesOn(k + 1, hi) :
                       getHeight(p[1].h, p[1].r) - getHeight(p[2].h, p[2].r)
                           \in (0 - FnSkew)..FnSkew}}
           : k \in lo..hi}

\* T with the root's cached height off by d
RootHeightOff(T, d) == [h |-> [T.h EXCEPT ![T.r].height = @ + d], r |-> T.r]

FnInputs ==
    UNION {
      {RootHeightOff(T, d) : d \in {e \in {-1, 0, 1} : T.h[T.r].height + e >= 1}}
      : T \in UNION {TreesOn(1, n) : n \in 1..FnNodes}}

InitFn ==
    /\ \E T \in FnInputs :
          /\ heap = T.h
          /\ root = T.r
          /\ pre = [heap |-> T.h, root |-> T.r]
          /\ S = {T.h[n].value : n \in DOMAIN T.h}
    /\ op = [kind |-> "none", v |-> 0]
    /\ calls = <<>>
    /\ pc = 0

\* the private call named kind, with result res, made on the subtree
FnCall(kind, res) ==
    /\ heap' = res.h
    /\ root' = res.r
    /\ op' = [kind |-> kind, v |-> 0]
    /\ pre' = [heap |-> heap, root |-> root]
    /\ calls' = res.log
    /\ pc' = 1
    /\ UNCHANGED S

FnBalance ==
    /\ pc = 0
    /\ FnCall("balance", balance(heap, root))

FnRotateRight ==
    /\ pc = 0
    /\ heap[root].left # NULL
    /\ FnCall("rotateRight", rotateRight(heap, root))

FnRotateLeft ==
    /\ pc = 0
    /\ heap[root].right # NULL
    /\ FnCall("rotateLeft", rotateLeft(heap, root))

FnRemoveMin ==
    /\ pc = 0
    /\ FnCall("removeMin", removeMin(heap, root))

\* remove(root, v) for a value v of the subtree
FnRemove(v) ==
    /\ pc = 0
    /\ v \in S
    /\ Remove(v)
    /\ pc' = 1

NextFn ==
    \/ FnBalance
    \/ FnRotateRight
    \/ FnRotateLeft
    \/ FnRemoveMin
    \/ \E v \in 1..FnNodes : FnRemove(v)

SpecFn == InitFn /\ [][NextFn]_vars

(***************************************************************************)
(* What the claims speak about, computed from the links themselves         *)
(***************************************************************************)
RECURSIVE RealHeight(_, _)
\* number of nodes on the longest downward path from node (0 for NULL)
RealHeight(h, node) ==
    IF node = NULL THEN 0
    ELSE 1 + Max(RealHeight(h, h[node].left), RealHeight(h, h[node].right))

RECURSIVE Subtree(_, _)
\* addresses of the nodes of the subtree rooted at node
Subtree(h, node) ==
    IF node = NULL THEN {}
    ELSE {node} \cup Subtree(h, h[node].left) \cup Subtree(h, h[node].right)

ValuesUnder(h, node) == {h[n].value : n \in Subtree(h, node)}

Abs(x) == IF x < 0 THEN -x ELSE x

StrictlyIncreasing(s) == \A i \in 1..(Len(s) - 1) : s[i] < s[i + 1]

\* the node of the pre-state that held the value of the last call, if any
PreHolders == {n \in Subtree(pre.heap, pre.root) : pre.heap[n].value = op.v}

RemovedTwoChildren ==
    /\ op.kind = "remove"
    /\ \E n \in PreHolders : pre.heap[n].left # NULL /\ pre.heap[n].right # NULL

\* the successor was not the right child itself: removeMin recursed
RemovedDeepSuccessor ==
    /\ op.kind = "remove"
    /\ \E n \in PreHolders :
          /\ pre.heap[n].left # NULL
          /\ pre.heap[n].right # NULL
          /\ pre.heap[pre.heap[n].right].left # NULL

\* C1: after every insert or remove, the real heights of the two subtrees of
\* every node reachable from root differ by at most 1.
AVLBalance ==
    \A n \in Subtree(heap, root) :
        Abs(RealHeight(heap, heap[n].left) - RealHeight(heap, heap[n].right)) <= 1

\* a remove that did not take out the root, yet changed the root: a rotation
\* at the root on the way back
AVLBalanceWitness ==
    /\ op.kind = "remove"
    /\ pre.root # NULL
    /\ pre.heap[pre.root].value # op.v
    /\ root # pre.root
    /\ Cardinality(Subtree(heap, root)) >= 3
    /\ AVLBalance

\* C2: after every insert or remove, every value of a node's left subtree is
\* less than the node's value and every value of its right subtree greater,
\* and the in-order traversal is strictly increasing.
SearchTreeOrder ==
    /\ \A n \in Subtree(heap, root) :
          /\ \A x \in ValuesUnder(heap, heap[n].left) : x < heap[n].value
          /\ \A x \in ValuesUnder(heap, heap[n].right) : heap[n].value < x
    /\ StrictlyIncreasing(inOrderTraversal(heap, root))

SearchTreeOrderWitness ==
    /\ RemovedDeepSuccessor
    /\ Len(inOrderTraversal(heap, root)) >= 4
    /\ SearchTreeOrder

\* C3: after every insert or remove, the cached height of every reachable
\* node is 1 + max of its children's cached heights (absent child 0) and
\* equals the real height of its subtree.
HeightCorrect ==
    \A n \in Subtree(heap, root) :
        /\ heap[n].height =
              1 + Max(getHeight(heap, heap[n].left), getHeight(heap, heap[n].right))
        /\ heap[n].height = RealHeight(heap, n)

\* a two-child removal whose successor node was relinked into the place of a
\* node of another height
HeightCorrectWitness ==
    /\ RemovedDeepSuccessor
    /\ \E n \in Subtree(heap, root) :
          /\ n \in DOMAIN pre.heap
          /\ heap[n].height # pre.heap[n].height
    /\ HeightCorrect

AllValues == 0..(2 * MaxVal + 60)

\* C4: after remove(v), contains(v) is false and contains(w) is what it was
\* before the call for every other value w.
DeletionCorrect ==
    op.kind = "remove" =>
        /\ ~contains(heap, root, op.v)
        /\ \A w \in AllValues \ {op.v} :
              contains(heap, root, w) = contains(pre.heap, pre.root, w)

DeletionCorrectWitness ==
    /\ RemovedTwoChildren
    /\ contains(pre.heap, pre.root, op.v)
    /\ DeletionCorrect

RECURSIVE SortedSeq(_)
SortedSeq(T) ==
    IF T = {} THEN <<>>
    ELSE LET m == CHOOSE x \in T : \A y \in T : x <= y
         IN  <<m>> \o SortedSeq(T \ {m})

\* C5: after inserting a set of distinct values in any order, the in-order
\* traversal is the ascending listing of that set.
RoundTrip == inOrderTraversal(heap, root) = SortedSeq(S)

\* five or more values are in, and the last one inserted was not the largest
RoundTripWitness ==
    /\ Cardinality(S) >= 5
    /\ op.kind = "insert"
    /\ \E x \in S : op.v < x
    /\ root # pre.root
    /\ RoundTrip

\* C6: insert(v) on a tree that contains v allocates nothing and leaves
\* root, shape, values and cached heights as they were.
DuplicateInsertNoOp ==
    (op.kind = "insert" /\ contains(pre.heap, pre.root, op.v)) =>
        /\ heap = pre.heap
        /\ root = pre.root
        /\ \A w \in AllValues : contains(heap, root, w) = contains(pre.heap, pre.root, w)
        /\ inOrderTraversal(heap, root) = inOrderTraversal(pre.heap, pre.root)

\* the duplicate sits below the root of a tree of three or more nodes
DuplicateInsertWitness ==
    /\ op.kind = "insert"
    /\ contains(pre.heap, pre.root, op.v)
    /\ pre.heap[pre.root].value # op.v
    /\ Cardinality(DOMAIN pre.heap) >= 3
    /\ DuplicateInsertNoOp

\* C7: remove(v) on a tree that does not contain v (the empty tree included)
\* leaves empty(), the contained values, the shape and the cached heights
\* as they were.
RemoveMissingNoOp ==
    (op.kind = "remove" /\ ~contains(pre.heap, pre.root, op.v)) =>
        /\ empty(root) = empty(pre.root)
        /\ heap = pre.heap
        /\ root = pre.root
        /\ \A w \in AllValues : contains(heap, root, w) = contains(pre.heap, pre.root, w)

\* a missing value strictly between two values of a tree of three or more
RemoveMissingWitness ==
    /\ op.kind = "remove"
    /\ ~contains(pre.heap, pre.root, op.v)
    /\ Cardinality(DOMAIN pre.heap) >= 3
    /\ \E a, b \in DOMAIN pre.heap :
          pre.heap[a].value < op.v /\ op.v < pre.heap[b].value
    /\ RemoveMissingNoOp

\* remove on the empty tree
RemoveOnEmptyReached == op.kind = "remove" /\ empty(pre.root) /\ empty(root)

RECURSIVE ReachFrom(_, _, _)
\* closure of frontier under the child links (terminates on any heap)
ReachFrom(h, frontier, seen) ==
    LET fresh == (frontier \ seen) \ {NULL}
        next  == UNION {IF n \in DOMAIN h THEN {h[n].left, h[n].right} ELSE {} : n \in fresh}
    IN  IF fresh = {} THEN seen ELSE ReachFrom(h, next, seen \cup fresh)

Reachable(h, r) == ReachFrom(h, {r}, {})

\* how many pointers (root, left and right fields of allocated nodes) hold n
InDegree(h, r, n) ==
    (IF r = n THEN 1 ELSE 0)
    + Cardinality({m \in DOMAIN h : h[m].left = n})
    + Cardinality({m \in DOMAIN h : h[m].right = n})

HeldBefore == \E n \in DOMAIN pre.heap : pre.heap[n].value = op.v

\* C8: after every insert or remove the allocated nodes are exactly the nodes
\* reachable from root, each pointed to exactly once, no two with equal
\* values, as many as there are values in the set; insert allocates one node
\* for a new value and none otherwise, remove deletes one node for a present
\* value and none otherwise.
NodeLifecycle ==
    /\ Reachable(heap, root) = DOMAIN heap
    /\ \A n \in DOMAIN heap : InDegree(heap, root, n) = 1
    /\ \A m, n \in DOMAIN heap : m # n => heap[m].value # heap[n].value
    /\ {heap[n].value : n \in DOMAIN heap} = S
    /\ Cardinality(DOMAIN heap) = Cardinality(S)
    /\ op.kind = "insert" =>
          IF HeldBefore
          THEN DOMAIN heap = DOMAIN pre.heap
          ELSE /\ DOMAIN pre.heap \subseteq DOMAIN heap
               /\ Cardinality(DOMAIN heap \ DOMAIN pre.heap) = 1
               /\ \A n \in DOMAIN heap \ DOMAIN pre.heap : heap[n].value = op.v
    /\ op.kind = "remove" =>
          IF HeldBefore
          THEN /\ DOMAIN heap \subseteq DOMAIN pre.heap
               /\ Cardinality(DOMAIN pre.heap \ DOMAIN heap) = 1
               /\ \A n \in DOMAIN pre.heap \ DOMAIN heap : pre.heap[n].value = op.v
          ELSE DOMAIN heap = DOMAIN pre.heap

\* a two-child removal that deleted one node, leaving two or more
NodeLifecycleWitness ==
    /\ RemovedTwoChildren
    /\ Cardinality(DOMAIN pre.heap \ DOMAIN heap) = 1
    /\ Cardinality(DOMAIN heap) >= 2
    /\ NodeLifecycle

\* an insert of a new value that allocated one node
NodeAllocatedReached ==
    /\ op.kind = "insert"
    /\ ~HeldBefore
    /\ Cardinality(DOMAIN heap \ DOMAIN pre.heap) = 1
    /\ Cardinality(DOMAIN heap) >= 3

RECURSIVE Pow(_, _)
Pow(b, e) == IF e = 0 THEN 1 ELSE b * Pow(b, e - 1)

RECURSIVE FloorLog2(_)
FloorLog2(x) == IF x < 2 THEN 0 ELSE 1 + FloorLog2(x \div 2)

\* C9: for n >= 1 distinct values inserted in any order the height of the
\* tree is at most 1.44 * log2(n + 2).  With p the largest integer such that
\* 2^p <= (n + 2)^LogScale, p / LogScale <= log2(n + 2), so
\* 100 * LogScale * height <= 144 * p implies the claim.
HeightBound ==
    LET n == Cardinality(S)
    IN  n >= 1 =>
          100 * LogScale * RealHeight(heap, root)
              <= 144 * FloorLog2(Pow(n + 2, LogScale))

\* seven values standing at the greatest height seven nodes allow
HeightBoundWitness ==
    /\ Cardinality(S) = 7
    /\ RealHeight(heap, root) = 4
    /\ HeightBound

\* C10: after main's six inserts the in-order traversal is
\* 10 20 25 30 40 50 and the root holds 30; after the remove(30) that
\* follows, contains(30) is false, the traversal is 10 20 25 40 50 and the
\* root's balance factor is -1, 0 or 1.
DemoScenario ==
    /\ pc = 6 =>
          /\ inOrderTraversal(heap, root) = <<10, 20, 25, 30, 40, 50>>
          /\ root # NULL
          /\ heap[root].value = 30
    /\ pc = 7 =>
          /\ ~contains(heap, root, 30)
          /\ inOrderTraversal(heap, root) = <<10, 20, 25, 40, 50>>
          /\ getBalance(heap, root) \in {-1, 0, 1}

DemoScenarioWitness ==
    /\ pc = 7
    /\ op = Rem(30)
    /\ contains(pre.heap, pre.root, 30)
    /\ pre.heap[pre.root].value = 30
    /\ DemoScenario

\* C11: after 1, 2, 3, 4, 5 have been inserted in that order the tree has
\* height exactly 3, by the links and by the root's cached height.
AscendingHeight ==
    pc = 5 =>
        /\ RealHeight(heap, root) = 3
        /\ getHeight(heap, root) = 3

AscendingHeightWitness ==
    /\ pc = 5
    /\ inOrderTraversal(heap, root) = <<1, 2, 3, 4, 5>>
    /\ op = Ins(5)
    /\ AscendingHeight

(***************************************************************************)
(* The private calls of the last public call                               *)
(***************************************************************************)
CallsOf(name) == {i \in 1..Len(calls) : calls[i].ev = name}

\* every node under node is balanced by the links and caches its real height
AVLValid(h, node) ==
    \A n \in Subtree(h, node) :
        /\ Abs(RealHeight(h, h[n].left) - RealHeight(h, h[n].right)) <= 1
        /\ h[n].height = RealHeight(h, n)

\* the balance factor balance computes for the call e, after its updateHeight
FactorAt(e) == getBalance(updateHeight(e.h, e.node), e.node)

Rotating(e) == FactorAt(e) > 1 \/ FactorAt(e) < -1

\* C12: at every call of balance made during an insert or remove, both
\* subtrees of the node are AVL-valid with correct cached heights and the
\* balance factor after the height recomputation lies in -2..2.
BalancePrecondition ==
    \A i \in CallsOf("balance") :
        LET e == calls[i]
        IN  /\ e.node \in DOMAIN e.h
            /\ AVLValid(e.h, e.h[e.node].left)
            /\ AVLValid(e.h, e.h[e.node].right)
            /\ FactorAt(e) \in -2..2

\* a two-child removal through removeMin in which balance met a factor of 2
\* or -2, and whose last balance call is the one on the successor
BalancePreconditionWitness ==
    /\ RemovedDeepSuccessor
    /\ \E i \in CallsOf("balance") : Rotating(calls[i])
    /\ \E i \in CallsOf("balance") : \E j \in CallsOf("removeMin") : j < i
    /\ BalancePrecondition

\* C14: rotateRight is only called on a node with a left child, rotateLeft
\* only on a node with a right child, removeMin only on a node.
CallPreconditions ==
    /\ \A i \in CallsOf("rotateRight") :
          /\ calls[i].node \in DOMAIN calls[i].h
          /\ calls[i].h[calls[i].node].left \in DOMAIN calls[i].h
    /\ \A i \in CallsOf("rotateLeft") :
          /\ calls[i].node \in DOMAIN calls[i].h
          /\ calls[i].h[calls[i].node].right \in DOMAIN calls[i].h
    /\ \A i \in CallsOf("removeMin") :
          calls[i].node \in DOMAIN calls[i].h

\* a removal that went through removeMin and made a double rotation
CallPreconditionsWitness ==
    /\ op.kind = "remove"
    /\ CallsOf("removeMin") # {}
    /\ \E i \in 1..(Len(calls) - 2) :
          /\ calls[i].ev = "balance"
          /\ calls[i + 1].ev \in {"rotateLeft", "rotateRight"}
          /\ calls[i + 2].ev \in {"rotateLeft", "rotateRight"}
    /\ CallPreconditions

\* an insert that made a double rotation
InsertDoubleRotationReached ==
    /\ op.kind = "insert"
    /\ \E i \in 1..(Len(calls) - 2) :
          /\ calls[i].ev = "balance"
          /\ calls[i + 1].ev = "rotateLeft"
          /\ calls[i + 2].ev = "rotateRight"

\* C17: with S the set that insert adds to and remove takes from, after
\* every call contains(w) is w \in S, the in-order traversal is the
\* ascending listing of S, the pre-order and post-order traversals are
\* permutations of it, and empty() is S = {}.
IsListingOf(s, T) ==
    /\ Len(s) = Cardinality(T)
    /\ {s[i] : i \in 1..Len(s)} = T

SetRefinement ==
    /\ \A w \in AllValues : contains(heap, root, w) <=> w \in S
    /\ inOrderTraversal(heap, root) = SortedSeq(S)
    /\ IsListingOf(preOrderTraversal(heap, root), S)
    /\ IsListingOf(postOrderTraversal(heap, root), S)
    /\ empty(root) <=> S = {}

\* the last value was removed: the tree is empty again
SetRefinementWitness ==
    /\ op.kind = "remove"
    /\ pre.root # NULL
    /\ S = {}
    /\ empty(root)
    /\ SetRefinement

\* five or more values after a removal, the three traversals all different
TraversalsDifferReached ==
    /\ op.kind = "remove"
    /\ contains(pre.heap, pre.root, op.v)
    /\ Cardinality(S) >= 5
    /\ preOrderTraversal(heap, root) # inOrderTraversal(heap, root)
    /\ postOrderTraversal(heap, root) # inOrderTraversal(heap, root)
    /\ preOrderTraversal(heap, root) # postOrderTraversal(heap, root)

\* C18: during one insert the rotating branch of balance is taken at no
\* more than one node, and the height of the tree afterwards is what it was
\* or one more.
InsertRotatesOnce ==
    op.kind = "insert" =>
        /\ Cardinality({i \in CallsOf("balance") : Rotating(calls[i])}) <= 1
        /\ RealHeight(heap, root) - RealHeight(pre.heap, pre.root) \in {0, 1}

\* an insert that rotated below the root and left the height as it was
InsertRotatesOnceWitness ==
    /\ op.kind = "insert"
    /\ \E i \in CallsOf("balance") :
          /\ Rotating(calls[i])
          /\ calls[i].node # pre.root
    /\ Len(calls) >= 3
    /\ RealHeight(heap, root) = RealHeight(pre.heap, pre.root)
    /\ InsertRotatesOnce

\* an insert that made the tree one higher
InsertGrowsReached ==
    /\ op.kind = "insert"
    /\ RealHeight(pre.heap, pre.root) >= 2
    /\ RealHeight(heap, root) = RealHeight(pre.heap, pre.root) + 1

(***************************************************************************)
(* One private call on one subtree (SpecFn)                                *)
(***************************************************************************)
\* the names of the calls made, in order
CallNames == [i \in 1..Len(calls) |-> calls[i].ev]

PreLeft == pre.heap[pre.root].left
PreRight == pre.heap[pre.root].right

\* real height of the left subtree minus that of the right, on entry
PreFactor == RealHeight(pre.heap, PreLeft) - RealHeight(pre.heap, PreRight)

\* what balance requires of the node it is handed
BalanceRequires ==
    /\ AVLValid(pre.heap, PreLeft)
    /\ AVLValid(pre.heap, PreRight)
    /\ PreFactor \in -2..2

\* C13: for a node whose two subtrees are AVL-valid with correct cached
\* heights and differ in height by at most 2, balance returns a subtree
\* that is AVL-valid with correct cached heights, is made of the same nodes
\* in the same in-order sequence, and makes no rotation for a factor in
\* -1..1, one in the left-left / right-right cases (a heavy child of factor
\* 0 included) and two in the left-right / right-left cases.
BalancePostcondition ==
    (op.kind = "balance" /\ BalanceRequires) =>
        /\ AVLValid(heap, root)
        /\ DOMAIN heap = DOMAIN pre.heap
        /\ Subtree(heap, root) = Subtree(pre.heap, pre.root)
        /\ \A n \in DOMAIN heap : heap[n].value = pre.heap[n].value
        /\ inOrder(heap, root) = inOrder(pre.heap, pre.root)
        /\ PreFactor \in -1..1 =>
              CallNames = <<"balance">> /\ root = pre.root
        /\ PreFactor = 2 =>
              IF getBalance(pre.heap, PreLeft) < 0
              THEN CallNames = <<"balance", "rotateLeft", "rotateRight">>
              ELSE CallNames = <<"balance", "rotateRight">>
        /\ PreFactor = -2 =>
              IF getBalance(pre.heap, PreRight) > 0
              THEN CallNames = <<"balance", "rotateRight", "rotateLeft">>
              ELSE CallNames = <<"balance", "rotateLeft">>

\* left-heavy by 2 with a left child of factor 0: one rotation
BalancePostconditionWitness ==
    /\ op.kind = "balance"
    /\ BalanceRequires
    /\ PreFactor = 2
    /\ getBalance(pre.heap, PreLeft) = 0
    /\ root = PreLeft
    /\ BalancePostcondition

\* right-left case: two rotations
BalanceDoubleReached ==
    /\ op.kind = "balance"
    /\ BalanceRequires
    /\ PreFactor = -2
    /\ getBalance(pre.heap, PreRight) > 0
    /\ Cardinality(DOMAIN heap) >= 5

\* C15: rotateRight and rotateLeft return a subtree made of the same nodes
\* with the same values in the same in-order sequence; the child becomes
\* the root with the old root as its child, and afterwards the cached
\* height of each of the two is 1 + max of its children's cached heights.
RotationPreserves ==
    op.kind \in {"rotateRight", "rotateLeft"} =>
        /\ DOMAIN heap = DOMAIN pre.heap
        /\ Subtree(heap, root) = Subtree(pre.heap, pre.root)
        /\ \A n \in DOMAIN heap : heap[n].value = pre.heap[n].value
        /\ inOrder(heap, root) = inOrder(pre.heap, pre.root)
        /\ root = (IF op.kind = "rotateRight" THEN PreLeft ELSE PreRight)
        /\ pre.root = (IF op.kind = "rotateRight" THEN heap[root].right ELSE heap[root].left)
        /\ \A n \in {root, pre.root} :
              heap[n].height =
                 1 + Max(getHeight(heap, heap[n].left), getHeight(heap, heap[n].right))
        /\ \A n \in DOMAIN heap \ {root, pre.root} : heap[n] = pre.heap[n]

\* a right rotation that handed the child's right subtree over to the old
\* root and changed both cached heights
RotationPreservesWitness ==
    /\ op.kind = "rotateRight"
    /\ pre.heap[PreLeft].right # NULL
    /\ heap[pre.root].left = pre.heap[PreLeft].right
    /\ heap[pre.root].height # pre.heap[pre.root].height
    /\ heap[root].height # pre.heap[root].height
    /\ RotationPreserves

RotateLeftReached ==
    /\ op.kind = "rotateLeft"
    /\ pre.heap[PreRight].left # NULL
    /\ heap[pre.root].right = pre.heap[PreRight].left

RECURSIVE LeftSpine(_, _)
\* node and the nodes below it along left links
LeftSpine(h, node) ==
    IF node = NULL THEN {} ELSE {node} \cup LeftSpine(h, h[node].left)

\* the node of the subtree at node that holds its least value
Leftmost(h, node) ==
    CHOOSE m \in Subtree(h, node) : \A n \in Subtree(h, node) : h[m].value <= h[n].value

\* the nodes of the pre-state holding the removed value with two children
TwoChildHolders ==
    {n \in Subtree(pre.heap, pre.root) :
        /\ pre.heap[n].value = op.v
        /\ pre.heap[n].left # NULL
        /\ pre.heap[n].right # NULL}

\* C16: for a non-empty AVL-valid subtree R, removeMin(R) returns a subtree
\* that holds the values of R without the least, is AVL-valid with correct
\* cached heights, is as high as R or one lower, and has had balance called
\* on every node from R down to the parent of the minimum; in a two-child
\* removal the node handed to the final balance call is the leftmost node
\* of the right subtree, with the old left subtree as its left child and
\* the right subtree without its minimum as its right child.
RemoveMinCorrect ==
    /\ (op.kind = "removeMin" /\ AVLValid(pre.heap, pre.root)) =>
          LET m == Leftmost(pre.heap, pre.root)
          IN  /\ inOrder(heap, root) = Tail(inOrder(pre.heap, pre.root))
              /\ Subtree(heap, root) = Subtree(pre.heap, pre.root) \ {m}
              /\ DOMAIN heap = DOMAIN pre.heap
              /\ AVLValid(heap, root)
              /\ RealHeight(pre.heap, pre.root) - RealHeight(heap, root) \in {0, 1}
              /\ {calls[i].node : i \in CallsOf("balance")}
                    = LeftSpine(pre.heap, pre.root) \ {m}
    /\ (op.kind = "remove" /\ AVLValid(pre.heap, pre.root)) =>
          \A n \in TwoChildHolders :
              LET L == pre.heap[n].left
                  R == pre.heap[n].right
                  m == Leftmost(pre.heap, R)
              IN  \E i \in CallsOf("balance") :
                      LET e == calls[i]
                      IN  /\ e.node = m
                          /\ m = findMin(pre.heap, R)
                          /\ e.h[m].left = L
                          /\ Subtree(e.h, L) = Subtree(pre.heap, L)
                          /\ inOrder(e.h, e.h[m].right) = Tail(inOrder(pre.heap, R))
                          /\ AVLValid(e.h, e.h[m].right)
                          /\ n \notin DOMAIN e.h
                          /\ \A j \in CallsOf("removeMin") : j < i
                          /\ \A j \in CallsOf("balance") : j > i => calls[j].node # m
                          /\ n = pre.root =>
                                /\ \A j \in CallsOf("balance") : j <= i
                                /\ Subtree(heap, root) = Subtree(e.h, m)

\* removeMin that rotated on the way back and returned a lower subtree
RemoveMinCorrectWitness ==
    /\ op.kind = "removeMin"
    /\ AVLValid(pre.heap, pre.root)
    /\ \E i \in CallsOf("balance") : Rotating(calls[i])
    /\ RealHeight(heap, root) = RealHeight(pre.heap, pre.root) - 1
    /\ RemoveMinCorrect

\* removeMin that rotated and returned a subtree of the same height
RemoveMinSameHeightReached ==
    /\ op.kind = "removeMin"
    /\ AVLValid(pre.heap, pre.root)
    /\ \E i \in CallsOf("balance") : Rotating(calls[i])
    /\ RealHeight(heap, root) = RealHeight(pre.heap, pre.root)

\* a two-child removal whose successor lay below the right child
SuccessorRelinkedReached ==
    /\ op.kind = "remove"
    /\ AVLValid(pre.heap, pre.root)
    /\ \E n \in TwoChildHolders : pre.heap[pre.heap[n].right].left # NULL

====
